---- MODULE Spec2Model ----
(***************************************************************************)
(* findAndReplaceDOMText v0.2 as bundled in bullshit.js.                   *)
(*                                                                         *)
(* The DOM is a table of nodes indexed by node identity (1..Len(dom)); a   *)
(* node that is created is appended to the table, a node that is removed   *)
(* from its parent stays in the table with parentNode = Null.  Strings are *)
(* sequences of characters.  The host's regular-expression engine is the   *)
(* environment: each exec/match call returns a match object chosen among   *)
(* all the match objects an engine could return at or after lastIndex.     *)
(***************************************************************************)
EXTENDS Integers, Sequences, FiniteSets, TLC

\* ------------------------------------------------------------------ bounds
MaxNodes == 3
MaxText == 3
MaxReverts == 2
\* the runs of several replace calls start from smaller trees
MaxCalls == 2
SeqNodes == 3
SeqText == 2

\* the runs to completion start from trees with fewer nodes
LiveNodes == 2
LiveText == 3

CaptureGroups == {0, 1}

Null == 0
\* a JavaScript variable holding undefined, or an array with the given items
Undefined == [array |-> FALSE, items |-> <<>>]
Array(xs) == [array |-> TRUE, items |-> xs]
\* the match object "null", and the result of shifting an empty array
NoMatch == [index |-> -1, m0 |-> <<>>, participated |-> FALSE, mcg |-> <<>>, cgAt |-> 0]
NoLocation == <<>>
TopNode == 1

VARIABLES
  dom,            \* the node table
  reverts,        \* var reverts (line 177): Undefined or Array(closures)
  pc,             \* "idle" | "locate" | "walk"
  err,            \* outcome of the last call: "none" or the exception thrown
  global,         \* regex.global of the running call
  lastIndex,      \* regex.lastIndex of the running call
  node,           \* argument node (the root) of the last call
  captureGroup,   \* argument captureGroup of the running call
  text,           \* var text (line 37) of the last call
  m,              \* var m (line 37): the last match object, or NoMatch
  matches,        \* var matches (line 37)
  curNode, atIndex, startNode, endNode, startNodeIndex, endNodeIndex,
  innerNodes, matchLocation, matchIndex,   \* locals of _stepThroughMatches
  dom0,           \* history: the node table when the last call began
  located,        \* history: the match list handed to _stepThroughMatches
  prior,          \* history: replacement elements of earlier, unreverted calls
  last,           \* history: the last entry point run, "none" at start
  callsLeft,      \* number of replace calls still to be made
  revertsLeft     \* number of revert calls still to be made

frame == <<global, lastIndex, captureGroup, m, matches>>
walk == <<curNode, atIndex, startNode, endNode, startNodeIndex, endNodeIndex,
          innerNodes, matchLocation, matchIndex>>
hist == <<dom0, located, prior, last, callsLeft, revertsLeft>>
vars == <<dom, reverts, pc, err, node, text, frame, walk, hist>>

\* ------------------------------------------------------------ sequences
\* the element of a one-element set; The({e : v \in {x}}) is e with v bound to
\* the value of x
The(S) == CHOOSE y \in S : TRUE

RECURSIVE Concat(_)
Concat(ss) == IF ss = <<>> THEN <<>> ELSE Head(ss) \o Concat(Tail(ss))

\* String.prototype.substring(from, to): an argument below 0 or above the
\* length counts as 0 or the length, and the two are swapped when from > to
substring(s, from, to) ==
  LET Clamp(i) == IF i < 0 THEN 0 ELSE IF i > Len(s) THEN Len(s) ELSE i
      a == Clamp(from)
      b == Clamp(to)
  IN IF a <= b THEN SubSeq(s, a + 1, b) ELSE SubSeq(s, b + 1, a)

\* the flattened texts of the initial trees: abab... up to length n
Texts(n) == {[i \in 1..k |-> IF i % 2 = 1 THEN "a" ELSE "b"] : k \in 0..n}

\* position (1-based) of node n in sequence kids, 0 when absent
IndexIn(kids, n) ==
  IF \E i \in 1..Len(kids) : kids[i] = n
  THEN CHOOSE i \in 1..Len(kids) : kids[i] = n
  ELSE 0

\* ------------------------------------------------------------------ DOM
TextNode(data, parent) ==
  [nodeType |-> 3, nodeName |-> "#text", data |-> data,
   childNodes |-> <<>>, parentNode |-> parent]

ElementNode(name, kids, parent) ==
  [nodeType |-> 1, nodeName |-> name, data |-> <<>>,
   childNodes |-> kids, parentNode |-> parent]

length(d, n) == Len(d[n].data)

firstChild(d, n) ==
  IF d[n].childNodes = <<>> THEN Null ELSE d[n].childNodes[1]

nextSibling(d, n) ==
  IF d[n].parentNode = Null THEN Null
  ELSE LET kids == d[d[n].parentNode].childNodes
           i == IndexIn(kids, n)
       IN IF i < Len(kids) THEN kids[i + 1] ELSE Null

\* the node table after detaching n from its parent, if it has one
Detach(nodes, n) ==
  The({ IF d[n].parentNode = Null THEN d
        ELSE [d EXCEPT ![d[n].parentNode].childNodes = SelectSeq(@, LAMBDA c : c # n),
                       ![n].parentNode = Null]
        : d \in {nodes} })

\* parent.insertBefore(new, ref), ref a child of parent
insertBefore(nodes, parent, new, ref) ==
  The({ LET i == IndexIn(d[parent].childNodes, ref)
        IN [d EXCEPT ![parent].childNodes =
                        SubSeq(@, 1, i - 1) \o <<new>> \o SubSeq(@, i, Len(@)),
                     ![new].parentNode = parent]
        : d \in {Detach(nodes, new)} })

\* parent.removeChild(child)
removeChild(d, parent, child) == Detach(d, child)

\* parent.replaceChild(new, old)
replaceChild(d, parent, new, old) ==
  removeChild(insertBefore(d, parent, new, old), parent, old)

\* document.createTextNode(data): the new node is Len(d) + 1
createTextNode(d, data) == Append(d, TextNode(data, Null))

\* the proper descendants of n, and n itself
RECURSIVE Subtree(_, _)
Subtree(d, n) ==
  {n} \cup UNION {Subtree(d, d[n].childNodes[i]) : i \in 1..Len(d[n].childNodes)}

\* _getText (lines 81-95)
RECURSIVE _getText(_, _)
_getText(d, n) ==
  IF d[n].nodeType = 3 THEN d[n].data
  ELSE Concat([i \in 1..Len(d[n].childNodes) |-> _getText(d, d[n].childNodes[i])])

\* Node.prototype.normalize on the children of p only: empty Text nodes are
\* removed, and the first non-empty Text node of a run of Text siblings takes
\* the data of the whole run while the rest of the run is removed
NormalizeChildren(nodes, p) ==
  The({ LET kids == d[p].childNodes
            IsText(i) == d[kids[i]].nodeType = 3
            RunStart(i) == CHOOSE j \in 1..i :
                              /\ \A k \in j..i : IsText(k)
                              /\ (j = 1 \/ ~IsText(j - 1))
            RunEnd(i) == CHOOSE j \in i..Len(kids) :
                              /\ \A k \in i..j : IsText(k)
                              /\ (j = Len(kids) \/ ~IsText(j + 1))
            Kept(i) == IsText(i) =>
                         /\ d[kids[i]].data # <<>>
                         /\ \A k \in RunStart(i)..(i - 1) : d[kids[k]].data = <<>>
            RunData(i) == Concat([k \in 1..(RunEnd(i) - i + 1) |-> d[kids[i + k - 1]].data])
        IN [n \in DOMAIN d |->
              IF n = p
              THEN [d[n] EXCEPT !.childNodes = SelectSeq(kids, LAMBDA c : Kept(IndexIn(kids, c)))]
              ELSE IF d[n].parentNode = p /\ d[n].nodeType = 3
              THEN IF Kept(IndexIn(kids, n)) THEN [d[n] EXCEPT !.data = RunData(IndexIn(kids, n))]
                   ELSE [d[n] EXCEPT !.parentNode = Null]
              ELSE d[n]]
        : d \in {nodes} })

\* Node.prototype.normalize: the whole subtree of every node in todo
RECURSIVE NormalizeAll(_, _)
NormalizeAll(nodes, todo) ==
  IF todo = <<>> THEN nodes
  ELSE The({ NormalizeAll(d, Tail(todo) \o SelectSeq(d[Head(todo)].childNodes,
                                                     LAMBDA c : d[c].nodeType = 1))
             : d \in {NormalizeChildren(nodes, Head(todo))} })

normalize(d, p) == NormalizeAll(d, <<p>>)

\* --------------------------------------------------------- initial trees
\* Shapes: nodes 2..n+1 in document order under TopNode; par[i] is the parent
\* of node i and lies on the path from node i-1 up to TopNode
RECURSIVE PathUp(_, _)
PathUp(par, i) == IF i = TopNode THEN {TopNode} ELSE {i} \cup PathUp(par, par[i])

Shapes(n) ==
  {par \in [2..(n + 1) -> 1..n] :
     \A i \in 2..(n + 1) :
        /\ par[i] < i
        /\ (i > 2 => par[i] \in PathUp(par, i - 1))}

\* the cuts of a text of length len into k consecutive pieces
Cuts(len, k) ==
  {c \in [0..k -> 0..len] :
     /\ c[0] = 0 /\ c[k] = len
     /\ \A j \in 1..k : c[j - 1] <= c[j]}

InitialTrees(maxNodes, maxText) ==
  UNION {
    LET ids == 2..(n + 1)
    IN UNION {
      UNION {
        LET texts == {i \in ids : ty[i] = 3}
            k == Cardinality(texts)
            Rank(i) == Cardinality({j \in texts : j <= i})
            Kids(p) == LET cs == {i \in ids : par[i] = p}
                       IN [j \in 1..Cardinality(cs) |->
                             CHOOSE c \in cs : Cardinality({x \in cs : x <= c}) = j]
        IN UNION {
          { [i \in 1..(n + 1) |->
               IF i = TopNode THEN ElementNode("P", Kids(i), Null)
               ELSE IF ty[i] = 3
               THEN TextNode(substring(t, c[Rank(i) - 1], c[Rank(i)]), par[i])
               ELSE ElementNode("B", Kids(i), par[i])]
             : c \in IF k = 0 THEN {<<>>} ELSE Cuts(Len(t), k) }
          : t \in IF k = 0 THEN {<<>>} ELSE Texts(maxText) }
        : ty \in {ty \in [ids -> {1, 3}] : \A i \in ids : par[i] = TopNode \/ ty[par[i]] = 1} }
      : par \in Shapes(n) }
    : n \in 1..maxNodes }

InitWith(trees, calls, undos) ==
  /\ dom \in trees
  /\ reverts = Undefined
  /\ pc = "idle"
  /\ err = "none"
  /\ global = FALSE /\ lastIndex = 0 /\ node = TopNode /\ captureGroup = 0
  /\ text = <<>> /\ m = NoMatch /\ matches = <<>>
  /\ curNode = Null /\ atIndex = 0 /\ startNode = Null /\ endNode = Null
  /\ startNodeIndex = 0 /\ endNodeIndex = 0 /\ innerNodes = <<>>
  /\ matchLocation = NoLocation /\ matchIndex = 0
  /\ dom0 = dom /\ located = <<>> /\ prior = {} /\ last = "none"
  /\ callsLeft = calls
  /\ revertsLeft = undos

\* one replace call, reverts before and after it
Init == InitWith(InitialTrees(MaxNodes, MaxText), 1, MaxReverts)

\* several replace calls
InitSeq == InitWith(InitialTrees(SeqNodes, SeqText), MaxCalls, MaxReverts)

\* ------------------------------------------------------- match location
\* String.prototype.indexOf: 0-based position of the first occurrence, or -1
indexOf(s, sub) ==
  LET At(i) == i + Len(sub) <= Len(s) /\ substring(s, i, i + Len(sub)) = sub
      hits == {i \in 0..Len(s) : At(i)}
  IN IF hits = {} THEN -1 ELSE CHOOSE i \in hits : \A j \in hits : i <= j

\* The match objects regex.exec / text.match can return when the search
\* starts at offset from: m.index, m[0], m[captureGroup] (mcg, undefined
\* unless participated; not read when captureGroup = 0) and, for the record,
\* the offset relative to m.index at which the group matched.  A group of
\* the pattern proper lies inside the full match; a group inside a
\* look-ahead or look-behind assertion can capture any part of the text.
ExecResults(txt, from, cg) ==
  UNION {
    UNION {
      LET none == [index |-> i, m0 |-> substring(txt, i, j),
                   participated |-> FALSE, mcg |-> <<>>, cgAt |-> 0]
      IN IF cg = 0 THEN {none}
         ELSE {none} \cup
              UNION { { [index |-> i, m0 |-> substring(txt, i, j), participated |-> TRUE,
                         mcg |-> substring(txt, gs, ge), cgAt |-> gs - i]
                        : ge \in gs..Len(txt) }
                      : gs \in 0..Len(txt) }
      : j \in i..Len(txt) }
    : i \in from..Len(txt) }

ZeroLengthMatch == "findAndReplaceDOMText cannot handle zero-length matches"
InvalidCaptureGroup == "Invalid capture group"
TypeError == "TypeError"

\* _getMatchIndexes (lines 59-75).  A match descriptor is the array
\* [index, index + length, [text]]: element k of the array is element k + 1
\* of the tuple.  The result is [throw |-> the exception thrown or "none",
\* value |-> the descriptor returned].
Throw(msg) == [throw |-> msg, value |-> NoLocation]
Return(v) == [throw |-> "none", value |-> v]

_getMatchIndexes(mo, cg) ==
  IF mo = NoMatch THEN Throw(TypeError)
  ELSE IF mo.m0 = <<>> THEN Throw(ZeroLengthMatch)
  ELSE IF cg > 0
  THEN IF ~mo.participated \/ mo.mcg = <<>> THEN Throw(InvalidCaptureGroup)
       ELSE LET index == mo.index + indexOf(mo.m0, mo.mcg)
            IN Return(<<index, index + Len(mo.mcg), <<mo.mcg>>>>)
  ELSE Return(<<mo.index, mo.index + Len(mo.m0), <<mo.m0>>>>)

Thrown(r) == r.throw # "none"

\* Flow as it would be with the call of _stepThroughMatches inside the loop
\* that collects the matches
Flow_Eager(at, g, n) ==
  CASE at = "pushed" -> "walk"
    [] at = "null" -> "idle"
    [] at = "stepped" -> IF g THEN "locate" ELSE "idle"

\* Control flow of findAndReplaceDOMText (lines 42-53): where the call goes
\* after a match was pushed, after exec returned null under a global
\* pattern, and after _stepThroughMatches returned; n is matches.length
Flow(at, g, n) ==
  CASE at = "pushed" -> IF g THEN "locate" ELSE "walk"
    [] at = "null" -> IF n > 0 THEN "walk" ELSE "idle"
    [] at = "stepped" -> "idle"

\* the locals of a call that has returned or thrown
FrameGone ==
  /\ global' = FALSE /\ lastIndex' = 0 /\ captureGroup' = 0
  /\ m' = NoMatch /\ matches' = <<>>

WalkGone ==
  /\ curNode' = Null /\ atIndex' = 0 /\ startNode' = Null /\ endNode' = Null
  /\ startNodeIndex' = 0 /\ endNodeIndex' = 0 /\ innerNodes' = <<>>
  /\ matchLocation' = NoLocation /\ matchIndex' = 0

\* entry of _stepThroughMatches (lines 103-112) with the match list ms
WalkEntered(ms) ==
  /\ curNode' = node /\ atIndex' = 0 /\ startNode' = Null /\ endNode' = Null
  /\ startNodeIndex' = 0 /\ endNodeIndex' = 0 /\ innerNodes' = <<>>
  /\ matchLocation' = Head(ms) /\ matchIndex' = 0
  /\ matches' = Tail(ms)
  /\ located' = located \o ms

\* the replacement elements the undo actions in rs refer to
RevertEls(rs) ==
  UNION {({rs[i].el, rs[i].elA, rs[i].elB} \ {Null})
            \cup {rs[i].innerEls[j] : j \in 1..Len(rs[i].innerEls)}
         : i \in 1..Len(rs)}

Elements(d) == {n \in Subtree(d, TopNode) : d[n].nodeType = 1}

\* findAndReplaceDOMText, lines 35-40: flatten, reset reverts (_genReplacer,
\* line 194), return on empty text
Call(g, n, cg) ==
  /\ pc = "idle"
  /\ callsLeft > 0
  /\ callsLeft' = callsLeft - 1
  /\ node' = n
  /\ text' = _getText(dom, n)
  /\ reverts' = Array(<<>>)
  /\ err' = "none"
  /\ dom' = dom
  /\ dom0' = dom
  /\ revertsLeft' = revertsLeft
  /\ located' = <<>>
  /\ prior' = {e \in prior \cup RevertEls(reverts.items) : dom[e].parentNode # Null}
  /\ last' = "replace"
  /\ WalkGone
  /\ IF text' = <<>>
     THEN pc' = "idle" /\ FrameGone
     ELSE /\ pc' = "locate"
          /\ global' = g /\ captureGroup' = cg /\ lastIndex' = 0
          /\ m' = NoMatch /\ matches' = <<>>

\* one regex.exec(text) of the loop of lines 43-45, or text.match(regex) of
\* line 47, followed by _getMatchIndexes and the push
Exec(mo) ==
  /\ pc = "locate"
  /\ UNCHANGED <<dom, reverts, node, text, dom0, prior, last, callsLeft, revertsLeft>>
  /\ \E r \in {_getMatchIndexes(mo, captureGroup)},
        to \in {IF mo = NoMatch THEN Flow("null", global, Len(matches))
                ELSE Flow("pushed", global, Len(matches) + 1)} :
     LET ms == IF mo = NoMatch THEN matches ELSE Append(matches, r.value)
     IN IF mo = NoMatch /\ global
        THEN \* exec returned null: the loop ends
             /\ err' = err
             /\ pc' = to
             /\ IF to = "walk" THEN WalkEntered(ms) /\ UNCHANGED <<global, captureGroup>>
                                    /\ lastIndex' = 0 /\ m' = NoMatch
                ELSE FrameGone /\ WalkGone /\ located' = located
        ELSE IF Thrown(r)
        THEN \* the exception leaves regex.lastIndex where the last exec put it
             /\ err' = r.throw
             /\ pc' = "idle"
             /\ global' = FALSE /\ captureGroup' = 0 /\ m' = NoMatch /\ matches' = <<>>
             /\ lastIndex' = lastIndex
             /\ WalkGone /\ located' = located
        ELSE /\ err' = err
             /\ pc' = to
             /\ m' = mo
             /\ lastIndex' = IF global THEN mo.index + Len(mo.m0) ELSE lastIndex
             /\ UNCHANGED <<global, captureGroup>>
             /\ IF to = "walk" THEN WalkEntered(ms)
                ELSE matches' = ms /\ UNCHANGED walk /\ located' = located

\* ---------------------------------------------------------- replacement
\* nodeName of the element findAndReplaceDOMText is asked to wrap matches in
StencilName == "EM"

\* makeReplacementNode without the appendChild of line 206
makeReplacementNode_NoFill(nodes, fill) ==
  [dom |-> Append(nodes, ElementNode(StencilName, <<>>, Null)), el |-> Len(nodes) + 1]

\* makeReplacementNode (lines 200-209) for a tag-name or childless stencil:
\* a fresh element, with a Text child holding fill unless fill is empty
makeReplacementNode(nodes, fill) ==
  The({ IF fill # <<>>
        THEN [dom |-> Append(Append(d, ElementNode(StencilName, <<Len(d) + 2>>, Null)),
                             TextNode(fill, Len(d) + 1)),
              el |-> Len(d) + 1]
        ELSE [dom |-> Append(d, ElementNode(StencilName, <<>>, Null)), el |-> Len(d) + 1]
        : d \in {nodes} })

\* lines 250-255: replace every inner node by an element made from its data
RECURSIVE InnerLoop(_, _, _, _)
InnerLoop(nodes, inner, i, innerEls) ==
  IF i > Len(inner) THEN [dom |-> nodes, innerEls |-> innerEls]
  ELSE The({ InnerLoop(replaceChild(mk.dom, mk.dom[inner[i]].parentNode, mk.el, inner[i]),
                       inner, i + 1, Append(innerEls, mk.el))
             : mk \in {The({ makeReplacementNode(d, d[inner[i]].data) : d \in {nodes} })} })

\* statement i of replace (lines 220-233 on one node, 245-261 across nodes);
\* s holds the node table and the function's locals
replaceStep(range, s, i) ==
  LET d == s.dom
      sn == range.startNode
      en == range.endNode
  IN IF sn = en
     THEN CASE i = 1 ->
                 IF range.startNodeIndex > 0
                 THEN [s EXCEPT
                         !.before = Len(d) + 1,
                         !.dom = insertBefore(
                                   createTextNode(d, substring(d[sn].data, 0,
                                                               range.startNodeIndex)),
                                   d[sn].parentNode, Len(d) + 1, sn)]
                 ELSE s
            [] i = 2 ->
                 The({ [s EXCEPT
                          !.el = mk.el,
                          !.dom = insertBefore(mk.dom, d[sn].parentNode, mk.el,
                                               sn)]
                       : mk \in {makeReplacementNode(d, range.match[1])} })
            [] i = 3 ->
                 IF range.endNodeIndex < length(d, sn)
                 THEN [s EXCEPT
                         !.after = Len(d) + 1,
                         !.dom = insertBefore(
                                   createTextNode(d, substring(d[sn].data,
                                                               range.endNodeIndex,
                                                               length(d, sn))),
                                   d[sn].parentNode, Len(d) + 1, sn)]
                 ELSE s
            [] OTHER ->
                 [s EXCEPT !.dom = removeChild(d, d[sn].parentNode, sn)]
     ELSE CASE i = 1 ->
                 [s EXCEPT !.before = Len(d) + 1,
                           !.dom = createTextNode(d, substring(d[sn].data, 0,
                                                               range.startNodeIndex))]
            [] i = 2 ->
                 [s EXCEPT !.after = Len(d) + 1,
                           !.dom = createTextNode(d, substring(d[en].data,
                                                               range.endNodeIndex,
                                                               length(d, en)))]
            [] i = 3 ->
                 The({ [s EXCEPT !.elA = mk.el, !.dom = mk.dom]
                       : mk \in {makeReplacementNode(
                                   d, substring(d[sn].data, range.startNodeIndex,
                                                length(d, sn)))} })
            [] i = 4 ->
                 The({ [s EXCEPT !.innerEls = lp.innerEls, !.dom = lp.dom]
                       : lp \in {InnerLoop(d, range.innerNodes, 1, <<>>)} })
            [] i = 5 ->
                 The({ [s EXCEPT !.elB = mk.el, !.dom = mk.dom]
                       : mk \in {makeReplacementNode(
                                   d, substring(d[en].data, 0, range.endNodeIndex))} })
            [] i = 6 ->
                 [s EXCEPT !.dom = insertBefore(d, d[sn].parentNode, s.before,
                                                sn)]
            [] i = 7 ->
                 [s EXCEPT !.dom = insertBefore(d, d[sn].parentNode, s.elA,
                                                sn)]
            [] i = 8 ->
                 [s EXCEPT !.dom = removeChild(d, d[sn].parentNode, sn)]
            [] i = 9 ->
                 [s EXCEPT !.dom = insertBefore(d, d[en].parentNode, s.elB, en)]
            [] i = 10 ->
                 [s EXCEPT !.dom = insertBefore(d, d[en].parentNode, s.after, en)]
            [] OTHER ->
                 [s EXCEPT !.dom = removeChild(d, d[en].parentNode, en)]

\* statements i..n of replace, run in order from the locals s
RECURSIVE replaceSteps(_, _, _, _)
replaceSteps(range, s, i, n) ==
  IF i > n THEN s
  ELSE replaceSteps(range, The({ replaceStep(range, v, i) : v \in {s} }), i + 1, n)

\* replace (lines 214-276): the node table after the splice, the node
\* returned to the walk and the closure pushed on reverts
replace(d, range) ==
  The({ [dom |-> s.dom,
         ret |-> IF range.startNode = range.endNode THEN s.el ELSE s.elB,
         closure |-> [el |-> s.el, elA |-> s.elA, innerEls |-> s.innerEls,
                      elB |-> s.elB, matchIndex |-> range.matchIndex]]
        : s \in {replaceSteps(range,
                              [dom |-> d, before |-> Null, after |-> Null, el |-> Null,
                               elA |-> Null, innerEls |-> <<>>, elB |-> Null],
                              1, IF range.startNode = range.endNode THEN 4 ELSE 11)} })

\* ----------------------------------------------------------------- walk
\* "Move forward or up" (lines 162-171): the node reached, out when the walk
\* is back at the root, throw when it runs off a parentless node
RECURSIVE ForwardOrUp(_, _, _)
\* ForwardOrUp without the way out for a last child of the root that is an
\* element without children: the walk visits that element again
ForwardOrUp_NoExit(d, cur, root) ==
  IF nextSibling(d, cur) # Null
  THEN [to |-> nextSibling(d, cur), out |-> FALSE, throw |-> FALSE]
  ELSE IF d[cur].parentNode # root
  THEN IF d[cur].parentNode = Null
       THEN [to |-> Null, out |-> FALSE, throw |-> TRUE]
       ELSE ForwardOrUp(d, d[cur].parentNode, root)
  ELSE IF d[cur].nodeType = 1 /\ d[cur].childNodes = <<>>
  THEN [to |-> cur, out |-> FALSE, throw |-> FALSE]
  ELSE [to |-> Null, out |-> TRUE, throw |-> FALSE]

ForwardOrUp(d, cur, root) ==
  IF nextSibling(d, cur) # Null
  THEN [to |-> nextSibling(d, cur), out |-> FALSE, throw |-> FALSE]
  ELSE IF d[cur].parentNode # root
  THEN IF d[cur].parentNode = Null
       THEN [to |-> Null, out |-> FALSE, throw |-> TRUE]
       ELSE ForwardOrUp(d, d[cur].parentNode, root)
  ELSE [to |-> Null, out |-> TRUE, throw |-> FALSE]

\* Visit with the start offset of line 128 not reduced by atIndex
Visit_NoOffset(d, cur, at, loc, sn, sni, en, eni, inner) ==
  IF d[cur].nodeType = 3
  THEN LET len == length(d, cur)
           foundEnd == en = Null /\ len + at >= loc[2]
           foundStart == sn = Null /\ len + at > loc[1]
       IN [endNode |-> IF foundEnd THEN cur ELSE en,
           endNodeIndex |-> IF foundEnd THEN loc[2] - at ELSE eni,
           innerNodes |-> IF ~foundEnd /\ sn # Null THEN Append(inner, cur) ELSE inner,
           startNode |-> IF foundStart THEN cur ELSE sn,
           startNodeIndex |-> IF foundStart THEN loc[1] ELSE sni,
           atIndex |-> at + len]
  ELSE [endNode |-> en, endNodeIndex |-> eni, innerNodes |-> inner,
        startNode |-> sn, startNodeIndex |-> sni, atIndex |-> at]

\* Visit with the end test of line 117 strict: a match that ends where a Text
\* node ends is looked for in the Text nodes after it
Visit_EndStrict(d, cur, at, loc, sn, sni, en, eni, inner) ==
  IF d[cur].nodeType = 3
  THEN LET len == length(d, cur)
           foundEnd == en = Null /\ len + at > loc[2]
           foundStart == sn = Null /\ len + at > loc[1]
       IN [endNode |-> IF foundEnd THEN cur ELSE en,
           endNodeIndex |-> IF foundEnd THEN loc[2] - at ELSE eni,
           innerNodes |-> IF ~foundEnd /\ sn # Null THEN Append(inner, cur) ELSE inner,
           startNode |-> IF foundStart THEN cur ELSE sn,
           startNodeIndex |-> IF foundStart THEN loc[1] - at ELSE sni,
           atIndex |-> at + len]
  ELSE [endNode |-> en, endNodeIndex |-> eni, innerNodes |-> inner,
        startNode |-> sn, startNodeIndex |-> sni, atIndex |-> at]

\* lines 116-131: what a visit of curNode does to the span being resolved
Visit(d, cur, at, loc, sn, sni, en, eni, inner) ==
  IF d[cur].nodeType = 3
  THEN LET len == length(d, cur)
           foundEnd == en = Null /\ len + at >= loc[2]
           foundStart == sn = Null /\ len + at > loc[1]
       IN [endNode |-> IF foundEnd THEN cur ELSE en,
           endNodeIndex |-> IF foundEnd THEN loc[2] - at ELSE eni,
           innerNodes |-> IF ~foundEnd /\ sn # Null THEN Append(inner, cur) ELSE inner,
           startNode |-> IF foundStart THEN cur ELSE sn,
           startNodeIndex |-> IF foundStart THEN loc[1] - at ELSE sni,
           atIndex |-> at + len]
  ELSE [endNode |-> en, endNodeIndex |-> eni, innerNodes |-> inner,
        startNode |-> sn, startNodeIndex |-> sni, atIndex |-> at]

\* the walk after a replacement with "Move down or forward" (lines 155-158)
\* tried first, as it is after a visit without replacement
AfterReplace_Down(d, el, root) ==
  IF firstChild(d, el) # Null
  THEN [to |-> firstChild(d, el), out |-> FALSE, throw |-> FALSE]
  ELSE ForwardOrUp(d, el, root)

\* lines 134-154 and 161-171: after a replacement the walk goes on from the
\* node el the callback returned, forward or up, never down
AfterReplace(d, el, root) ==
  ForwardOrUp(d, el, root)

\* the step back of line 146 left out
StepBack_None(at, len, eni) == at

\* line 146: atIndex after a replacement, the end node having length len and
\* the match ending at offset eni inside it
StepBack(at, len, eni) ==
  at - (len - eni)

\* the walk returns (break, break out) or throws
WalkReturns(ex) ==
  /\ err' = ex
  /\ pc' = IF ex = "none" THEN Flow("stepped", global, Len(matches)) ELSE "idle"
  /\ WalkGone
  /\ IF pc' = "idle" THEN FrameGone
     ELSE UNCHANGED <<global, lastIndex, captureGroup, m>> /\ matches' = <<>>

\* the walk goes on at node n
WalkMoves(n) ==
  /\ curNode' = n
  /\ pc' = "walk"
  /\ err' = err
  /\ UNCHANGED <<global, lastIndex, captureGroup, m>>

\* one iteration of the loop "out" of _stepThroughMatches (lines 114-173)
Step ==
  /\ pc = "walk"
  /\ UNCHANGED <<node, text, dom0, located, prior, last, callsLeft, revertsLeft>>
  /\ \E v \in {Visit(dom, curNode, atIndex, matchLocation, startNode, startNodeIndex,
                      endNode, endNodeIndex, innerNodes)} :
        IF v.startNode # Null /\ v.endNode # Null
        THEN \E r \in {replace(dom, [startNode |-> v.startNode,
                                     startNodeIndex |-> v.startNodeIndex,
                                     endNode |-> v.endNode,
                                     endNodeIndex |-> v.endNodeIndex,
                                     innerNodes |-> v.innerNodes,
                                     match |-> matchLocation[3],
                                     matchIndex |-> matchIndex])} :
             \E up \in {AfterReplace(r.dom, r.ret, node)} :
                /\ dom' = r.dom
                /\ reverts' = Array(Append(reverts.items, r.closure))
                /\ IF matches = <<>> THEN WalkReturns("none")
                   ELSE IF up.throw THEN WalkReturns(TypeError)
                   ELSE IF up.out THEN WalkReturns("none")
                   ELSE /\ WalkMoves(up.to)
                        /\ atIndex' = StepBack(v.atIndex, length(dom, v.endNode),
                                                v.endNodeIndex)
                        /\ startNode' = Null /\ endNode' = Null
                        /\ startNodeIndex' = v.startNodeIndex /\ endNodeIndex' = v.endNodeIndex
                        /\ innerNodes' = <<>>
                        /\ matchLocation' = Head(matches)
                        /\ matches' = Tail(matches)
                        /\ matchIndex' = matchIndex + 1
        ELSE \E down \in {IF firstChild(dom, curNode) # Null THEN firstChild(dom, curNode)
                           ELSE nextSibling(dom, curNode)},
                up \in {ForwardOrUp(dom, curNode, node)} :
                /\ UNCHANGED <<dom, reverts>>
                /\ IF down = Null /\ up.throw THEN WalkReturns(TypeError)
                   ELSE IF down = Null /\ up.out THEN WalkReturns("none")
                   ELSE /\ WalkMoves(IF down # Null THEN down ELSE up.to)
                        /\ atIndex' = v.atIndex
                        /\ startNode' = v.startNode /\ endNode' = v.endNode
                        /\ startNodeIndex' = v.startNodeIndex
                        /\ endNodeIndex' = v.endNodeIndex
                        /\ innerNodes' = v.innerNodes
                        /\ UNCHANGED <<matchLocation, matches, matchIndex>>

\* --------------------------------------------------------------- revert
\* the body of both revert closures (lines 238-241, 268-271) for element el:
\* throws when el has no parent or no first child
Unwrap(d, el) ==
  LET pnode == d[el].parentNode
  IN IF pnode = Null \/ firstChild(d, el) = Null
     THEN [dom |-> d, throw |-> TRUE]
     ELSE [dom |-> normalize(removeChild(insertBefore(d, pnode, firstChild(d, el), el),
                                         pnode, el),
                             pnode),
           throw |-> FALSE]

RECURSIVE UnwrapAll(_, _, _)
UnwrapAll(nodes, els, i) ==
  IF i > Len(els) THEN [dom |-> nodes, throw |-> FALSE]
  ELSE The({ IF u.throw THEN u ELSE UnwrapAll(u.dom, els, i + 1)
             : u \in {The({ Unwrap(d, els[i]) : d \in {nodes} })} })

\* one revert closure: the single-node one (lines 237-242) or the multi-node
\* one (lines 263-273), which first grows its innerEls by elA and elB
RunClosure(d, c) ==
  IF c.el # Null
  THEN The({ [dom |-> u.dom, throw |-> u.throw, closure |-> c]
             : u \in {Unwrap(d, c.el)} })
  ELSE LET els == <<c.elA>> \o c.innerEls \o <<c.elB>>
       IN The({ [dom |-> u.dom, throw |-> u.throw, closure |-> [c EXCEPT !.innerEls = els]]
                : u \in {UnwrapAll(d, els, 1)} })

\* the loop of revert (lines 182-184) from closure i on
RECURSIVE RunReverts(_, _, _)
RunReverts(nodes, rs, i) ==
  IF i > Len(rs) THEN [dom |-> nodes, throw |-> FALSE, reverts |-> rs]
  ELSE The({ IF r.throw
             THEN [dom |-> r.dom, throw |-> TRUE, reverts |-> [rs EXCEPT ![i] = r.closure]]
             ELSE RunReverts(r.dom, [rs EXCEPT ![i] = r.closure], i + 1)
             : r \in {The({ RunClosure(d, rs[i]) : d \in {nodes} })} })

\* findAndReplaceDOMText.revert (lines 181-186)
Revert ==
  /\ pc = "idle"
  /\ revertsLeft > 0
  /\ revertsLeft' = revertsLeft - 1
  /\ last' = "revert"
  /\ UNCHANGED <<pc, node, text, frame, walk, dom0, located, prior, callsLeft>>
  /\ IF ~reverts.array
     THEN err' = TypeError /\ UNCHANGED <<dom, reverts>>
     ELSE \E r \in {RunReverts(dom, reverts.items, 1)} :
             /\ dom' = r.dom
             /\ err' = IF r.throw THEN TypeError ELSE "none"
             /\ reverts' = IF r.throw THEN Array(r.reverts) ELSE Array(<<>>)

Next ==
  \/ \E g \in BOOLEAN, n \in Elements(dom), cg \in CaptureGroups : Call(g, n, cg)
  \/ \E mo \in ExecResults(text, lastIndex, captureGroup) \cup {NoMatch} : Exec(mo)
  \/ Step
  \/ Revert

Spec == Init /\ [][Next]_vars

\* one replace call on the trees of the runs to completion
InitLive == InitWith(InitialTrees(LiveNodes, LiveText), 1, MaxReverts)

\* A call runs to completion: the engine answers every exec and match, and
\* the loop of the walk goes on as long as it can
SpecLive ==
  /\ InitLive /\ [][Next]_vars
  /\ WF_vars(\E mo \in ExecResults(text, lastIndex, captureGroup) \cup {NoMatch} : Exec(mo))
  /\ WF_vars(Step)

\* several replace calls in a row, each with the whole match (no captureGroup)
NextSeq ==
  \/ \E g \in BOOLEAN, n \in Elements(dom) : Call(g, n, 0)
  \/ \E mo \in ExecResults(text, lastIndex, captureGroup) \cup {NoMatch} : Exec(mo)
  \/ Step
  \/ Revert

SpecSeq == InitSeq /\ [][NextSeq]_vars

\* ------------------------------------------------------------ vocabulary
\* the nodes of the subtree of n in document order
RECURSIVE DocOrder(_, _)
DocOrder(d, n) ==
  <<n>> \o Concat([i \in 1..Len(d[n].childNodes) |-> DocOrder(d, d[n].childNodes[i])])

\* the number of characters of the flattened text of root that precede node n
TextBefore(d, root, n) ==
  LET order == DocOrder(d, root)
      i == IndexIn(order, n)
  IN Len(Concat([k \in 1..(i - 1) |->
                   IF d[order[k]].nodeType = 3 THEN d[order[k]].data ELSE <<>>]))

\* the nodes that exist since the last replace call began
Created(n) == n > Len(dom0)

\* the replacement elements an undo action unwraps
ClosureEls(c) ==
  ({c.el, c.elA, c.elB} \ {Null}) \cup {c.innerEls[j] : j \in 1..Len(c.innerEls)}

\* the flattened text of n without the text inside the elements in skip
RECURSIVE TextOutside(_, _, _)
TextOutside(d, n, skip) ==
  IF n \in skip THEN <<>>
  ELSE IF d[n].nodeType = 3 THEN d[n].data
  ELSE Concat([i \in 1..Len(d[n].childNodes) |-> TextOutside(d, d[n].childNodes[i], skip)])

\* the characters of txt at the offsets that lie in no descriptor of ms
Unmatched(txt, ms) ==
  LET Keep(i) == \A k \in 1..Len(ms) : ~(ms[k][1] < i /\ i <= ms[k][2])
  IN Concat([i \in 1..Len(txt) |-> IF Keep(i) THEN <<txt[i]>> ELSE <<>>])

\* ms is a list of match descriptors over txt: each descriptor lies inside
\* txt, is not empty, carries the characters of txt at its offsets and
\* begins no earlier than the one before it ends
ValidMatches(ms, txt) ==
  \A k \in 1..Len(ms) :
    /\ 0 <= ms[k][1] /\ ms[k][1] < ms[k][2] /\ ms[k][2] <= Len(txt)
    /\ ms[k][3] = <<substring(txt, ms[k][1], ms[k][2])>>
    /\ (k > 1 => ms[k - 1][2] <= ms[k][1])

\* the proper ancestors of n
RECURSIVE Ancestors(_, _)
Ancestors(d, n) ==
  IF d[n].parentNode = Null THEN {}
  ELSE {d[n].parentNode} \cup Ancestors(d, d[n].parentNode)

\* a replace call has returned normally after stepping through its matches
Replaced == pc = "idle" /\ last = "replace" /\ err = "none" /\ located # <<>>

\* revert has run after a replace call that stepped through its matches
Reverted == pc = "idle" /\ last = "revert" /\ located # <<>>

\* a transition is a call of revert
RevertCalled == revertsLeft' < revertsLeft

\* tags and quoted text of the subtree of n, in document order
RECURSIVE Serialize(_, _)
Serialize(d, n) ==
  IF d[n].nodeType = 3 THEN <<"'">> \o d[n].data \o <<"'">>
  ELSE <<"<", d[n].nodeName>>
       \o Concat([i \in 1..Len(d[n].childNodes) |-> Serialize(d, d[n].childNodes[i])])
       \o <<">">>

\* no empty Text node and no two adjacent Text nodes in the subtree of n
Normalized(d, n) ==
  \A e \in Subtree(d, n) :
    LET kids == d[e].childNodes
    IN \A i \in 1..Len(kids) :
         d[kids[i]].nodeType = 3 =>
           /\ d[kids[i]].data # <<>>
           /\ (i > 1 => d[kids[i - 1]].nodeType # 3)

\* an original Text node of the root's subtree intersects a located match:
\* it holds a matched character, or it is empty and strictly inside a match
Touched(n) ==
  /\ n \in Subtree(dom0, node)
  /\ dom0[n].nodeType = 3
  /\ LET o == TextBefore(dom0, node, n)
         len == Len(dom0[n].data)
     IN \E k \in 1..Len(located) :
          \/ len > 0 /\ o < located[k][2] /\ located[k][1] < o + len
          \/ len = 0 /\ located[k][1] < o /\ o < located[k][2]

\* --------------------------------------------------------------- claims
\* C1 (as claimed): after a replace call that made at least one replacement,
\* revert completes without error, leaves no replacement element in the
\* subtree of the root and leaves the flattened text of the root as it was
\* before replace.
C1_RoundTrip ==
  Reverted =>
    /\ err = "none"
    /\ \A n \in Subtree(dom, node) : ~(Created(n) /\ dom[n].nodeType = 1)
    /\ _getText(dom, node) = text

\* C2: from the moment a replace call has flattened its root until the next
\* call, through every splice of the walk for an ordered, non-overlapping
\* match list over the flattened text, the flattened text of the root is the
\* text the call started from.
C2_TextPreserved ==
  (last = "replace" /\ ValidMatches(located, text)) => _getText(dom, node) = text

C2_Witness ==
  /\ Replaced
  /\ ValidMatches(located, text)
  /\ Len(located) = 2
  /\ \E i \in 1..Len(reverts.items) : reverts.items[i].innerEls # <<>>

\* C3: when replace has returned from stepping through match descriptors of
\* the flattened text, every located match has its own replacement elements,
\* their texts concatenated in document order are the characters of the
\* flattened text at the match's offsets, and the characters in no match
\* are, in order, the text outside these elements.
C3_OffsetMapping ==
  (Replaced /\ ValidMatches(located, text)) =>
    /\ Len(reverts.items) = Len(located)
    /\ \A k \in 1..Len(located) :
         LET els == ClosureEls(reverts.items[k])
             order == SelectSeq(DocOrder(dom, node), LAMBDA n : n \in els)
         IN /\ Len(order) = Cardinality(els)
            /\ Concat([i \in 1..Len(order) |-> _getText(dom, order[i])])
                 = substring(text, located[k][1], located[k][2])
    /\ TextOutside(dom, node, RevertEls(reverts.items)) = Unmatched(text, located)

\* a match over several Text nodes was replaced and left a character unmatched
C3_Witness ==
  /\ Replaced
  /\ ValidMatches(located, text)
  /\ \E i \in 1..Len(reverts.items) : reverts.items[i].elA # Null
  /\ Unmatched(text, located) # <<>>

\* C4: when a replace call has thrown the zero-length or the capture-group
\* exception, the node table is what it was when the call began and no
\* replacement has been made (no undo action recorded since the call reset
\* the list).
C4_ErrorsBeforeMutation ==
  (last = "replace" /\ err \in {ZeroLengthMatch, InvalidCaptureGroup}) =>
    /\ pc = "idle"
    /\ dom = dom0
    /\ reverts = Array(<<>>)

\* the exception was thrown for a match found after an accepted one
C4_Witness ==
  /\ last = "replace"
  /\ err \in {ZeroLengthMatch, InvalidCaptureGroup}
  /\ lastIndex > 0

\* C5 (as claimed): a non-global pattern is executed once and the call then
\* either steps through one descriptor or, when nothing is located, returns;
\* the only exceptions are the two of match location.
C5_NonGlobal ==
  [][(pc = "locate" /\ ~global) =>
       /\ pc' \in {"walk", "idle"}
       /\ Len(located') <= 1
       /\ (pc' = "walk" <=> Len(located') = 1)
       /\ err' \in {"none", ZeroLengthMatch, InvalidCaptureGroup}
       /\ (pc' = "idle" => dom' = dom0)]_vars

\* C6 (as claimed): with captureGroup > 0 the descriptor pushed for a match
\* starts where the group matched, m.index plus the group's offset inside
\* the full match, and is as long as the captured text.
C6_GroupOffsets ==
  (m # NoMatch /\ captureGroup > 0) =>
    LET loc == IF pc = "locate" THEN matches[Len(matches)] ELSE located[Len(located)]
    IN /\ loc[1] = m.index + m.cgAt
       /\ loc[2] = m.index + m.cgAt + Len(m.mcg)
       /\ loc[3] = <<m.mcg>>

\* C7 (as claimed): once a replace call has been made, a call of revert
\* unwraps only elements the last replace call created, in the order of the
\* matches, leaves the revert list empty and leaves the replacement elements
\* of earlier calls where they were.
C7_RevertScope ==
  [][(RevertCalled /\ reverts.array) =>
       /\ \A i \in 1..Len(reverts.items) :
            /\ reverts.items[i].matchIndex = i - 1
            /\ \A e \in ClosureEls(reverts.items[i]) : Created(e)
       /\ reverts' = Array(<<>>)
       /\ \A e \in prior : dom'[e].parentNode = dom[e].parentNode]_vars

\* C8 (as claimed): a call of revert while no undo action is stored raises
\* no error and changes neither the node table nor the revert list.
C8_RevertNoop ==
  [][(RevertCalled /\ reverts.items = <<>>) =>
       /\ err' = "none"
       /\ dom' = dom
       /\ reverts' = reverts]_vars

\* C9 (as claimed): during and after a replace call, every node outside the root's
\* subtree is as it was when the call began, and every original node other
\* than the Text nodes that intersect a match keeps its type, data and
\* parent and keeps its original children, other than those Text nodes, in
\* their order.
C9_Frame ==
  last = "replace" =>
    \A n \in 1..Len(dom0) :
      /\ n \notin Subtree(dom0, node) => dom[n] = dom0[n]
      /\ ~Touched(n) =>
           /\ dom[n].nodeType = dom0[n].nodeType
           /\ dom[n].nodeName = dom0[n].nodeName
           /\ dom[n].data = dom0[n].data
           /\ dom[n].parentNode = dom0[n].parentNode
           /\ SelectSeq(dom[n].childNodes, LAMBDA c : ~Created(c) /\ ~Touched(c))
                = SelectSeq(dom0[n].childNodes, LAMBDA c : ~Touched(c))

\* C10 (as claimed): replace followed by revert leaves the root's subtree
\* structurally equal to the subtree before replace.
C10_ShapeRestoredAny ==
  Reverted => Serialize(dom, node) = Serialize(dom0, node)

\* C11 (as claimed): under a global pattern every descriptor of the match
\* list, while it is collected and when it is stepped through, begins no
\* earlier than the descriptor before it ends.
C11_NonOverlap ==
  global =>
    LET ms == IF pc = "walk" THEN located ELSE matches
    IN \A k \in 2..Len(ms) : ms[k - 1][2] <= ms[k][1]

\* C12 (as claimed): every descriptor match location has produced, collected
\* or handed to the walk, satisfies 0 <= start < end <= length of the
\* flattened text.
C12_OffsetsValid ==
  \A k \in 1..Len(matches \o located) :
    LET loc == (matches \o located)[k]
    IN 0 <= loc[1] /\ loc[1] < loc[2] /\ loc[2] <= Len(text)

\* C13 (as claimed): whatever match object a step of match location gets, the
\* step throws the zero-length exception when the selected text (the full
\* match, or the text of the capture group when captureGroup > 0) is empty,
\* and throws the capture-group exception only when the group did not
\* participate in the match.
C13_ErrorClasses ==
  [][\A mo \in ExecResults(text, lastIndex, captureGroup) :
       Exec(mo) =>
         /\ (captureGroup = 0 /\ mo.m0 = <<>>) => err' = ZeroLengthMatch
         /\ (captureGroup > 0 /\ mo.participated /\ mo.mcg = <<>>)
              => err' = ZeroLengthMatch
         /\ err' = InvalidCaptureGroup => ~mo.participated]_vars

\* C14: while the walk steps through a valid, ascending, non-overlapping
\* match list, the replacement callback has been invoked once for each
\* descriptor before the current one, with matchIndex 0, 1, 2, ... and the
\* descriptor's captured text, and the current descriptor is the next of the
\* list; the walk ends without error and only when every descriptor of the
\* list has had its invocation.
C14_EachMatchOnce ==
  (last = "replace" /\ located # <<>> /\ ValidMatches(located, text)) =>
    /\ \A i \in 1..Len(reverts.items) :
         LET els == ClosureEls(reverts.items[i])
             order == SelectSeq(DocOrder(dom, node), LAMBDA n : n \in els)
         IN /\ reverts.items[i].matchIndex = i - 1
            /\ i <= Len(located)
            /\ <<Concat([j \in 1..Len(order) |-> _getText(dom, order[j])])>>
                 = located[i][3]
    /\ pc = "walk" =>
         /\ matchIndex = Len(reverts.items)
         /\ matchIndex < Len(located)
         /\ matchLocation = located[matchIndex + 1]
         /\ matches = SubSeq(located, matchIndex + 2, Len(located))
    /\ pc = "idle" =>
         /\ err = "none"
         /\ Len(reverts.items) = Len(located)

\* the walk has resolved two matches that have unmatched text between them
C14_Witness ==
  /\ Replaced
  /\ ValidMatches(located, text)
  /\ Len(located) = 2
  /\ located[1][2] < located[2][1]
  /\ Len(reverts.items) = 2

\* C15 (as claimed): the revert list is empty whenever match location runs;
\* a step of the walk that splices a match in appends one undo action to it
\* and every other step of the walk leaves it alone; when a replace call has
\* completed, the list has one undo action for each located descriptor; and
\* a call of revert after a replace call leaves it empty.
C15_RevertList ==
  [][/\ pc' = "locate" => reverts' = Array(<<>>)
     /\ pc = "walk" =>
          IF dom' # dom
          THEN /\ Len(reverts'.items) = Len(reverts.items) + 1
               /\ SubSeq(reverts'.items, 1, Len(reverts.items)) = reverts.items
          ELSE reverts' = reverts
     /\ (pc' = "idle" /\ last' = "replace" /\ err' = "none")
          => Len(reverts'.items) = Len(located')
     /\ (RevertCalled /\ reverts.array) => reverts' = Array(<<>>)]_vars

\* C16: when the walk stands at a Text node while it steps through a valid
\* match list, atIndex is the number of characters of the flattened text
\* that precede that node's content; and after every step that splices a
\* match in and goes on, atIndex is the end offset of that match.
C16_AtIndex ==
  [][/\ (pc' = "walk" /\ dom'[curNode'].nodeType = 3 /\ ValidMatches(located', text'))
          => atIndex' = TextBefore(dom', node', curNode')
     /\ (pc = "walk" /\ pc' = "walk" /\ dom' # dom)
          => atIndex' = matchLocation[2]]_vars

\* after a replacement the walk stands at the new Text node that holds the
\* unmatched tail of the end node
C16_Witness ==
  /\ pc = "walk"
  /\ ValidMatches(located, text)
  /\ matchIndex > 0
  /\ Created(curNode) /\ dom[curNode].nodeType = 3
  /\ atIndex = located[matchIndex][2]
  /\ atIndex < Len(text)

\* C17: a replace call that has begun returns or throws: the loop that
\* collects the matches of a global pattern moves the cursor of the pattern
\* forward with every match it collects, and the walk comes to its end.
C17_Terminates ==
  /\ [][(pc = "locate" /\ pc' = "locate") => lastIndex' > lastIndex]_vars
  /\ (pc # "idle") ~> (pc = "idle")

\* a walk over a match list of a global pattern has come to its end
C17_Witness ==
  /\ Replaced
  /\ Len(located) = 2
  /\ \E n \in Subtree(dom0, node) : dom0[n].nodeType = 1 /\ n # node

\* C18 (as claimed): every replacement element a replace call has made for
\* a valid match list has exactly one child, a Text node, which for a match
\* inside one Text node holds the captured text.
C18_OneTextChild ==
  (last = "replace" /\ ValidMatches(located, text)) =>
    \A i \in 1..Len(reverts.items) :
      \A e \in ClosureEls(reverts.items[i]) :
        LET kids == dom[e].childNodes
        IN /\ Len(kids) = 1
           /\ dom[kids[1]].nodeType = 3
           /\ (reverts.items[i].el # Null) => <<dom[kids[1]].data>> = located[i][3]

\* C19: the walk of a replace call never stands at or inside a replacement
\* element the call has made, atIndex never exceeds the length of the
\* flattened text, and no replacement element of the call lies inside
\* another one of the same call.
C19_NoDescent ==
  last = "replace" =>
    LET made == RevertEls(reverts.items)
    IN /\ pc = "walk" =>
            /\ ({curNode} \cup Ancestors(dom, curNode)) \cap made = {}
            /\ atIndex <= Len(text)
       /\ \A e \in made : Ancestors(dom, e) \cap made = {}

\* after a replacement the walk goes on at a node behind the replacement
\* element, with another match to resolve
C19_Witness ==
  /\ pc = "walk"
  /\ matchIndex > 0
  /\ RevertEls(reverts.items) # {}
  /\ dom[curNode].nodeType = 3
  /\ Len(dom[curNode].data) > 0
====
